---------------------------- MODULE Spec2Model ----------------------------
(***************************************************************************)
(* Model of assignment1/producer_consumer.py: the bounded SharedQueue      *)
(* (one lock, two conditions), the Producer and Consumer threads and the   *)
(* ProducerConsumerSystem orchestrator.                                    *)
(*                                                                         *)
(* Every method of SharedQueue runs under the queue's single lock, so a    *)
(* critical section is one atomic action.  Condition.wait() splits a       *)
(* critical section in two: the thread releases the lock and sits in the   *)
(* condition's waiter set (pc "put_wait" / "get_wait") until a notify or   *)
(* its timeout moves it out (pc "put_woken" after get's notify,            *)
(* "put_released" after close's notify_all, "get_woken", "get_expired");   *)
(* it then re-enters the critical section at the loop test.  Reads made    *)
(* without the lock (Producer.run's and Consumer.run's reads of            *)
(* queue.closed) are actions of their own.                                 *)
(***************************************************************************)
EXTENDS Integers, Sequences, FiniteSets, Bags, TLC

\* ------------------------------------------------------------ bounds
MaxCap == 2          \* capacities 1..MaxCap are explored
MaxItems == 2        \* most items over all sources of one system
MaxOps == 4          \* most queue calls the free clients of QSpec issue
MaxLiveOps == 3      \* the same, where QSpec is checked under fairness
MaxThreads == 3      \* most Producer and Consumer threads a driver builds

\* ------------------------------------------------------------ values
None == "None"
Items == {"a", "b"}
Values == Items \cup {None}          \* item: Any, None included

Producers == {"p1", "p2"}
Consumers == {"c1", "c2"}
Clients == {"k1", "k2", "k3"}
Main == "main"
Threads == Producers \cup Consumers \cup Clients \cup {Main}

\* two ProducerConsumerSystem instances and the objects their constructors
\* build (a SharedQueue and a destination list each)
Systems == {"s1", "s2"}
ObjIds == 1..(2 * Cardinality(Systems))
NoItem == "nothing"

ProducerOrder == <<"p1", "p2">>
ConsumerOrder == <<"c1", "c2">>

Sources == UNION {[1..n -> Values] : n \in 0..MaxItems}

VARIABLES
    queue,            \* SharedQueue.queue
    max_size,         \* SharedQueue.max_size
    closed,           \* SharedQueue.closed
    pc,               \* each thread's position
    timeout,          \* per thread: TRUE when its current get has a timeout
    arg,              \* per thread: the item of its current put
    success,          \* per thread: what its last put returned
    item,             \* per thread: what its last get returned
    source,           \* Producer.source
    fails,            \* per producer: iterating its source raises after its items
    idx,              \* Producer.run: position of the for loop in source
    items_produced,   \* Producer.items_produced
    running,          \* Consumer.running
    items_consumed,   \* Consumer.items_consumed
    destination,      \* ProducerConsumerSystem.destination
    producers,        \* ProducerConsumerSystem.producers
    consumers,        \* ProducerConsumerSystem.consumers
    k,                \* main thread: index of its current for loop
    results,          \* the items of the fresh list get_results() built
    resultsRef,       \* the list object get_results() returned, "none" before
    putLog,           \* history: items appended to the buffer, in order
    getLog,           \* history: items popped from the buffer, in order
    closeCalls,       \* history: number of close() calls completed
    popsAtClose,      \* history: Len(getLog) at the first close(), -1 before it
    waited,           \* history, per client thread: its current call has waited
    accepted,         \* history, per producer: the items its puts appended
    raised,           \* history, per producer: an exception ended its run()
    ops,              \* history: number of client calls issued (QSpec)
    heap,             \* two systems: the SharedQueue and list objects built
    shared_queue,     \* two systems: ProducerConsumerSystem.shared_queue
    sys_destination,  \* two systems: ProducerConsumerSystem.destination
    in_hand,          \* two systems: the item a consumer holds before append
    actor             \* two systems: the system whose operation ran last

vars == <<queue, max_size, closed, pc, timeout, arg, success, item, source,
          fails, idx, items_produced, running, items_consumed, destination,
          producers, consumers, k, results, resultsRef, putLog, getLog, closeCalls,
          popsAtClose, waited, accepted, raised, ops, heap, shared_queue,
          sys_destination, in_hand, actor>>

qvars == <<queue, max_size, closed>>
hvars == <<putLog, getLog, closeCalls, popsAtClose, waited, accepted, raised>>
pvars == <<source, fails, idx, items_produced>>
cvars == <<running, items_consumed, destination>>
svars == <<producers, consumers, k, results, resultsRef>>
ivars == <<heap, shared_queue, sys_destination, in_hand, actor>>

\* ------------------------------------------------------------ helpers
\* the concatenation of the sequences f[ts[1]], f[ts[2]], ...
RECURSIVE Flatten(_, _)
Flatten(f, ts) ==
    IF ts = <<>> THEN <<>> ELSE f[Head(ts)] \o Flatten(f, Tail(ts))

\* ------------------------------------------------------------ SharedQueue
\* threads waiting on the two conditions of the queue's lock
not_empty == {t \in Threads : pc[t] = "get_wait"}
not_full == {t \in Threads : pc[t] = "put_wait"}

\* (mutant of Full: the loop test off by one)
FullOffByOne == Len(queue) > max_size

\* put's loop test
Full == Len(queue) >= max_size

\* get's loop test
Empty == Len(queue) = 0

\* (mutant of Appended: the item is inserted at the head)
AppendedAtHead(q, v) == <<v>> \o q

\* list.append(item)
Appended(q, v) == Append(q, v)

\* (mutant of Popped: the newest item is returned)
PoppedLast(q) == q[Len(q)]

\* list.pop(0): the value returned and the list left
Popped(q) == Head(q)
AfterPop(q) == Tail(q)

\* (mutant of Notify: the call is missing, nobody is woken)
NotifyNone(p, waiters, woken) == {p}

\* Condition.notify(): the pc functions after waking at most one waiter.
\* Which waiter is woken is not part of Condition's contract: any one may be.
Notify(p, waiters, woken) ==
    IF waiters = {} THEN {p} ELSE {[p EXCEPT ![w] = woken] : w \in waiters}

\* A waiter whose wait(timeout) has timed out stays in the condition's
\* waiter list until it has the lock again; a notify() in between may pick
\* it, and then wakes no other waiter. notify() takes the waiter it picks
\* off the list, so the picked waiter goes on as a notified one: it re-tests
\* the loop condition when it has the lock (its remaining time is then not
\* positive, which Get allows for every woken get with a timeout).
NotifyExpiring(p) ==
    {[p EXCEPT ![w] = "get_woken"] : w \in {t \in Threads : p[t] = "get_expired"}}

\* (mutant of NotifyAll: nobody is woken)
NotifyNobody(p, waiters, woken) == p

\* Condition.notify_all()
NotifyAll(p, waiters, woken) ==
    [t \in Threads |-> IF t \in waiters THEN woken ELSE p[t]]

\* where a thread continues when its put / get returns
AfterPut(t) == IF t \in Producers THEN "p_ret" ELSE "put_ret"
AfterGet(t) == IF t \in Consumers THEN "c_got" ELSE "get_ret"

\* (mutant of PutRefused: put does not test the flag after its loop)
PutNeverRefused == FALSE

\* put's test of the flag after its loop: if self.closed: return False
PutRefused == closed

\* put, from taking the lock (or from waking in wait) to releasing it
Put(t) ==
    /\ pc[t] \in {"put", "put_woken", "put_released"}
    /\ IF Full /\ ~closed
       THEN /\ pc' = [pc EXCEPT ![t] = "put_wait"]
            /\ waited' = [waited EXCEPT ![t] = t \in Clients]
            /\ UNCHANGED <<queue, success, putLog, arg, accepted>>
       ELSE IF PutRefused
       THEN /\ success' = [success EXCEPT ![t] = FALSE]
            /\ arg' = [arg EXCEPT ![t] = None]
            /\ pc' = [pc EXCEPT ![t] = AfterPut(t)]
            /\ UNCHANGED <<queue, putLog, waited, accepted>>
       ELSE /\ queue' = Appended(queue, arg[t])
            /\ putLog' = Append(putLog, arg[t])
            /\ accepted' = IF t \in Producers
                           THEN [accepted EXCEPT ![t] = Append(@, arg[t])]
                           ELSE accepted
            /\ success' = [success EXCEPT ![t] = TRUE]
            /\ arg' = [arg EXCEPT ![t] = None]
            /\ pc' \in Notify([pc EXCEPT ![t] = AfterPut(t)], not_empty, "get_woken")
                        \cup NotifyExpiring([pc EXCEPT ![t] = AfterPut(t)])
            /\ UNCHANGED waited
    /\ UNCHANGED <<max_size, ivars, closed, timeout, item, pvars, cvars, svars,
                   getLog, closeCalls, popsAtClose, raised, ops>>

\* get returns v
GetReturn(t, v, p) ==
    /\ item' = [item EXCEPT ![t] = v]
    /\ pc' \in p

\* get, from taking the lock (or from waking in wait) to releasing it
Get(t) ==
    /\ pc[t] \in {"get", "get_woken", "get_expired"}
    /\ IF Empty /\ ~closed
       THEN /\ \/ /\ timeout[t]
                  /\ pc[t] \in {"get_woken", "get_expired"}     \* remaining <= 0
                  /\ GetReturn(t, None, {[pc EXCEPT ![t] = AfterGet(t)]})
                  /\ UNCHANGED waited
               \/ /\ pc[t] # "get_expired"                      \* remaining > 0, or no timeout
                  /\ pc' = [pc EXCEPT ![t] = "get_wait"]
                  /\ waited' = [waited EXCEPT ![t] = t \in Clients]
                  /\ UNCHANGED item
            /\ UNCHANGED <<queue, getLog>>
       ELSE IF Empty
       THEN /\ GetReturn(t, None, {[pc EXCEPT ![t] = AfterGet(t)]})
            /\ UNCHANGED <<queue, getLog, waited>>
       ELSE /\ queue' = AfterPop(queue)
            /\ getLog' = Append(getLog, Popped(queue))
            /\ GetReturn(t, Popped(queue),
                         Notify([pc EXCEPT ![t] = AfterGet(t)], not_full, "put_woken"))
            /\ UNCHANGED waited
    /\ UNCHANGED <<max_size, ivars, closed, timeout, arg, success, pvars, cvars, svars,
                   putLog, closeCalls, popsAtClose, accepted, raised, ops>>

\* (mutant of GetTimeout: an elapsed timeout also marks the queue closed)
GetTimeoutCloses(t) ==
    /\ pc[t] = "get_wait"
    /\ timeout[t]
    /\ pc' = [pc EXCEPT ![t] = "get_expired"]
    /\ closed' = TRUE
    /\ UNCHANGED <<queue, max_size, ivars, timeout, arg, success, item, pvars, cvars,
                   svars, hvars, ops>>

\* the timeout of a wait(timeout=remaining) elapses
GetTimeout(t) ==
    /\ pc[t] = "get_wait"
    /\ timeout[t]
    /\ pc' = [pc EXCEPT ![t] = "get_expired"]
    /\ UNCHANGED <<qvars, ivars, timeout, arg, success, item, pvars, cvars, svars,
                   hvars, ops>>

\* (mutant of Close: a call on a closed queue opens it again)
CloseToggles(t, next) ==
    /\ closed' = ~closed
    /\ pc' = NotifyAll(NotifyAll([pc EXCEPT ![t] = next], not_empty, "get_woken"),
                       not_full, "put_released")
    /\ closeCalls' = closeCalls + 1
    /\ popsAtClose' = IF closeCalls = 0 THEN Len(getLog) ELSE popsAtClose
    /\ UNCHANGED <<queue, max_size, ivars, timeout, arg, success, item, pvars, cvars,
                   putLog, getLog, waited, accepted, raised>>

\* (mutant of Close: the flag is not set, the waiters are still woken)
CloseNoFlag(t, next) ==
    /\ closed' = closed
    /\ pc' = NotifyAll(NotifyAll([pc EXCEPT ![t] = next], not_empty, "get_woken"),
                       not_full, "put_released")
    /\ closeCalls' = closeCalls + 1
    /\ popsAtClose' = IF closeCalls = 0 THEN Len(getLog) ELSE popsAtClose
    /\ UNCHANGED <<queue, max_size, ivars, timeout, arg, success, item, pvars, cvars,
                   putLog, getLog, waited, accepted, raised>>

\* close() called by thread t, which continues at `next`
Close(t, next) ==
    /\ closed' = TRUE
    /\ pc' = NotifyAll(NotifyAll([pc EXCEPT ![t] = next], not_empty, "get_woken"),
                       not_full, "put_released")
    /\ closeCalls' = closeCalls + 1
    /\ popsAtClose' = IF closeCalls = 0 THEN Len(getLog) ELSE popsAtClose
    /\ UNCHANGED <<queue, max_size, ivars, timeout, arg, success, item, pvars, cvars,
                   putLog, getLog, waited, accepted, raised>>

\* ------------------------------------------------------------ free clients
\* A client thread calls the queue's methods directly, as the tests do.
ClientPut(t, v) ==
    /\ pc[t] = "idle"
    /\ ops < MaxOps
    /\ ops' = ops + 1
    /\ arg' = [arg EXCEPT ![t] = v]
    /\ pc' = [pc EXCEPT ![t] = "put"]
    /\ UNCHANGED <<qvars, ivars, timeout, success, item, pvars, cvars, svars,
                   hvars>>

ClientGet(t, timed) ==
    /\ pc[t] = "idle"
    /\ ops < MaxOps
    /\ ops' = ops + 1
    /\ timeout' = [timeout EXCEPT ![t] = timed]
    /\ pc' = [pc EXCEPT ![t] = "get"]
    /\ UNCHANGED <<qvars, ivars, arg, success, item, pvars, cvars, svars,
                   hvars>>

\* the client has its call's return value and drops it
ClientDone(t) ==
    /\ pc[t] \in {"put_ret", "get_ret"}
    /\ pc' = [pc EXCEPT ![t] = "idle"]
    /\ success' = [success EXCEPT ![t] = FALSE]
    /\ item' = [item EXCEPT ![t] = None]
    /\ waited' = [waited EXCEPT ![t] = FALSE]
    /\ UNCHANGED <<qvars, ivars, timeout, arg, pvars, cvars, svars, putLog, getLog,
                   closeCalls, popsAtClose, accepted, raised, ops>>

ClientClose(t) ==
    /\ pc[t] = "idle"
    /\ ops < MaxOps
    /\ ops' = ops + 1
    /\ Close(t, "idle")
    /\ UNCHANGED svars

\* ------------------------------------------------------------ Producer
\* (mutant of P_Iter: the loop does not look at the closed flag)
P_IterNoCheck(p) ==
    /\ pc[p] = "p_iter"
    /\ IF idx[p] < Len(source[p])
       THEN /\ idx' = [idx EXCEPT ![p] = idx[p] + 1]
            /\ pc' = [pc EXCEPT ![p] = "put"]
            /\ arg' = [arg EXCEPT ![p] = source[p][idx[p] + 1]]
            /\ UNCHANGED raised
       ELSE /\ pc' = [pc EXCEPT ![p] = "done"]
            /\ raised' = [raised EXCEPT ![p] = fails[p]]
            /\ UNCHANGED <<arg, idx>>
    /\ UNCHANGED <<qvars, ivars, timeout, success, item, source, fails, items_produced,
                   cvars, svars, putLog, getLog, closeCalls, popsAtClose, waited,
                   accepted, ops>>

\* (mutant of P_Iter: the source is iterated from its end)
P_IterReversed(p) ==
    /\ pc[p] = "p_iter"
    /\ IF idx[p] < Len(source[p])
       THEN /\ idx' = [idx EXCEPT ![p] = idx[p] + 1]
            /\ IF closed
               THEN /\ pc' = [pc EXCEPT ![p] = "done"]
                    /\ UNCHANGED arg
               ELSE /\ pc' = [pc EXCEPT ![p] = "put"]
                    /\ arg' = [arg EXCEPT ![p] = source[p][Len(source[p]) - idx[p]]]
            /\ UNCHANGED raised
       ELSE /\ pc' = [pc EXCEPT ![p] = "done"]
            /\ raised' = [raised EXCEPT ![p] = fails[p]]
            /\ UNCHANGED <<arg, idx>>
    /\ UNCHANGED <<qvars, ivars, timeout, success, item, source, fails, items_produced,
                   cvars, svars, putLog, getLog, closeCalls, popsAtClose, waited,
                   accepted, ops>>

\* for item in self.source: if self.shared_queue.closed: break
\* The loop takes the next item, or ends; closed is read without the lock.
\* When the source has no further item the loop ends, or, if iterating the
\* source raises there, the exception leaves run() and ends the thread.
P_Iter(p) ==
    /\ pc[p] = "p_iter"
    /\ IF idx[p] < Len(source[p])
       THEN /\ idx' = [idx EXCEPT ![p] = idx[p] + 1]
            /\ IF closed
               THEN /\ pc' = [pc EXCEPT ![p] = "done"]
                    /\ UNCHANGED arg
               ELSE /\ pc' = [pc EXCEPT ![p] = "put"]
                    /\ arg' = [arg EXCEPT ![p] = source[p][idx[p] + 1]]
            /\ UNCHANGED raised
       ELSE /\ pc' = [pc EXCEPT ![p] = "done"]
            /\ raised' = [raised EXCEPT ![p] = fails[p]]
            /\ UNCHANGED <<arg, idx>>
    /\ UNCHANGED <<qvars, ivars, timeout, success, item, source, fails, items_produced,
                   cvars, svars, putLog, getLog, closeCalls, popsAtClose, waited,
                   accepted, ops>>

\* (mutant of P_Ret: the test of success is inverted)
P_RetInverted(p) ==
    /\ pc[p] = "p_ret"
    /\ items_produced' = [items_produced EXCEPT
                            ![p] = IF success[p] THEN items_produced[p]
                                   ELSE items_produced[p] + 1]
    /\ success' = [success EXCEPT ![p] = FALSE]
    /\ pc' = [pc EXCEPT ![p] = "p_iter"]
    /\ UNCHANGED <<qvars, ivars, timeout, arg, item, source, fails, idx, cvars, svars,
                   hvars, ops>>

\* if success: self.items_produced += 1
P_Ret(p) ==
    /\ pc[p] = "p_ret"
    /\ items_produced' = [items_produced EXCEPT
                            ![p] = IF success[p] THEN items_produced[p] + 1
                                   ELSE items_produced[p]]
    /\ success' = [success EXCEPT ![p] = FALSE]
    /\ pc' = [pc EXCEPT ![p] = "p_iter"]
    /\ UNCHANGED <<qvars, ivars, timeout, arg, item, source, fails, idx, cvars, svars,
                   hvars, ops>>

\* ------------------------------------------------------------ Consumer
\* (mutant of C_Loop: the loop does not test running)
C_LoopForever(c) ==
    /\ pc[c] = "c_loop"
    /\ pc' = [pc EXCEPT ![c] = "get"]
    /\ UNCHANGED <<qvars, ivars, timeout, arg, success, item, pvars, cvars, svars,
                   hvars, ops>>

\* while self.running: item = self.shared_queue.get(timeout=0.5)
C_Loop(c) ==
    /\ pc[c] = "c_loop"
    /\ pc' = [pc EXCEPT ![c] = IF running[c] THEN "get" ELSE "done"]
    /\ UNCHANGED <<qvars, ivars, timeout, arg, success, item, pvars, cvars, svars,
                   hvars, ops>>

\* Consumer.stop(), called by a thread that holds the consumer, while the
\* consumer's thread runs: self.running = False
Stop(c) ==
    /\ pc[c] \notin {"new", "done"}
    /\ running[c]
    /\ running' = [running EXCEPT ![c] = FALSE]
    /\ UNCHANGED <<qvars, ivars, pc, timeout, arg, success, item, pvars,
                   items_consumed, destination, svars, hvars, ops>>

\* get returned a value that is not None
GotItem(v) == v # None

\* (mutant of C_Got: the elif does not test closed)
C_GotIgnoresClosed(c) ==
    /\ pc[c] = "c_got"
    /\ IF GotItem(item[c])
       THEN /\ destination' = Append(destination, item[c])
            /\ items_consumed' = [items_consumed EXCEPT ![c] = items_consumed[c] + 1]
            /\ pc' = [pc EXCEPT ![c] = "c_loop"]
       ELSE /\ pc' = [pc EXCEPT ![c] = "c_empty"]
            /\ UNCHANGED <<destination, items_consumed>>
    /\ item' = [item EXCEPT ![c] = None]
    /\ UNCHANGED <<qvars, ivars, timeout, arg, success, pvars, running, svars,
                   hvars, ops>>

\* if item is not None: append and count; elif self.shared_queue.closed ...
\* list.append is atomic in CPython; closed is read without the lock.
C_Got(c) ==
    /\ pc[c] = "c_got"
    /\ IF GotItem(item[c])
       THEN /\ destination' = Append(destination, item[c])
            /\ items_consumed' = [items_consumed EXCEPT ![c] = items_consumed[c] + 1]
            /\ pc' = [pc EXCEPT ![c] = "c_loop"]
       ELSE /\ pc' = [pc EXCEPT ![c] = IF closed THEN "c_empty" ELSE "c_loop"]
            /\ UNCHANGED <<destination, items_consumed>>
    /\ item' = [item EXCEPT ![c] = None]
    /\ UNCHANGED <<qvars, ivars, timeout, arg, success, pvars, running, svars,
                   hvars, ops>>

\* (mutant of C_IsEmpty: the test of is_empty() is inverted)
C_IsEmptyInverted(c) ==
    /\ pc[c] = "c_empty"
    /\ pc' = [pc EXCEPT ![c] = IF Empty THEN "c_loop" ELSE "done"]
    /\ UNCHANGED <<qvars, ivars, timeout, arg, success, item, pvars, cvars, svars,
                   hvars, ops>>

\* ... and self.shared_queue.is_empty(): break
C_IsEmpty(c) ==
    /\ pc[c] = "c_empty"
    /\ pc' = [pc EXCEPT ![c] = IF Empty THEN "done" ELSE "c_loop"]
    /\ UNCHANGED <<qvars, ivars, timeout, arg, success, item, pvars, cvars, svars,
                   hvars, ops>>

\* ------------------------------------------------------------ ProducerConsumerSystem
\* the number of items in the sources registered so far
TotalItems == Len(Flatten(source, producers))

\* add_producer(source)
AddProducer(src) ==
    /\ pc[Main] = "setup"
    /\ Len(producers) < Len(ProducerOrder)
    /\ TotalItems + Len(src) <= MaxItems
    /\ source' = [source EXCEPT ![ProducerOrder[Len(producers) + 1]] = src]
    /\ producers' = Append(producers, ProducerOrder[Len(producers) + 1])
    /\ UNCHANGED <<qvars, ivars, pc, timeout, arg, success, item, fails, idx,
                   items_produced, cvars, consumers, k, results, resultsRef, hvars, ops>>

\* add_producer(source) with a source whose iteration raises after its items
AddFailingProducer(src) ==
    /\ pc[Main] = "setup"
    /\ Len(producers) < Len(ProducerOrder)
    /\ TotalItems + Len(src) <= MaxItems
    /\ source' = [source EXCEPT ![ProducerOrder[Len(producers) + 1]] = src]
    /\ fails' = [fails EXCEPT ![ProducerOrder[Len(producers) + 1]] = TRUE]
    /\ producers' = Append(producers, ProducerOrder[Len(producers) + 1])
    /\ UNCHANGED <<qvars, ivars, pc, timeout, arg, success, item, idx, items_produced,
                   cvars, consumers, k, results, resultsRef, hvars, ops>>

\* add_consumer()
AddConsumer ==
    /\ pc[Main] = "setup"
    /\ Len(consumers) < Len(ConsumerOrder)
    /\ consumers' = Append(consumers, ConsumerOrder[Len(consumers) + 1])
    /\ UNCHANGED <<qvars, ivars, pc, timeout, arg, success, item, pvars, cvars,
                   producers, k, results, resultsRef, hvars, ops>>

\* (mutant of StartOrder: the producers are started first)
ProducersFirst == producers \o consumers

\* the order in which start() starts the threads
StartOrder == consumers \o producers

\* what a started thread runs first
FirstStep(t) == IF t \in Consumers THEN "c_loop" ELSE "p_iter"

\* start() is called
Start ==
    /\ pc[Main] = "setup"
    /\ pc' = [pc EXCEPT ![Main] = IF Len(StartOrder) = 0 THEN "started" ELSE "starting"]
    /\ k' = 0
    /\ UNCHANGED <<qvars, ivars, timeout, arg, success, item, pvars, cvars, producers,
                   consumers, results, resultsRef, hvars, ops>>

\* start(): one thread.start() of the two loops
StartThread ==
    /\ pc[Main] = "starting"
    /\ pc' = [pc EXCEPT ![StartOrder[k + 1]] = FirstStep(StartOrder[k + 1]),
                        ![Main] = IF k + 1 = Len(StartOrder) THEN "started"
                                  ELSE "starting"]
    /\ k' = IF k + 1 = Len(StartOrder) THEN 0 ELSE k + 1
    /\ UNCHANGED <<qvars, ivars, timeout, arg, success, item, pvars, cvars, producers,
                   consumers, results, resultsRef, hvars, ops>>

\* every thread of the list has terminated: a loop of join() calls returns
AllDone(threads) == \A i \in DOMAIN threads : pc[threads[i]] = "done"

\* (mutant of JoinProducersClose: the queue is closed before the joins)
CloseBeforeJoin ==
    /\ pc[Main] = "started"
    /\ Close(Main, "join_c")
    /\ UNCHANGED <<svars, ops>>

\* wait_for_completion(), first half:
\* for producer in self.producers: producer.join()
\* self.shared_queue.close()
JoinProducersClose ==
    /\ pc[Main] = "started"
    /\ AllDone(producers)
    /\ Close(Main, "join_c")
    /\ UNCHANGED <<svars, ops>>

\* wait_for_completion(), second half:
\* for consumer in self.consumers: consumer.join(); then it returns
JoinConsumersReturn ==
    /\ pc[Main] = "join_c"
    /\ AllDone(consumers)
    /\ pc' = [pc EXCEPT ![Main] = "returned"]
    /\ UNCHANGED <<qvars, ivars, timeout, arg, success, item, pvars, cvars, svars,
                   hvars, ops>>

\* (mutant of ResultsCall: the destination list itself is returned)
ResultsCallNoCopy(at, next) ==
    /\ pc[Main] = at
    /\ results' = destination
    /\ resultsRef' = "destination"
    /\ pc' = [pc EXCEPT ![Main] = next]
    /\ UNCHANGED <<qvars, ivars, timeout, arg, success, item, pvars, cvars, producers,
                   consumers, k, hvars, ops>>

\* get_results(), called by the main thread at `at`:
\* self.destination.copy(), a new list object that holds the items the
\* destination holds at the call
ResultsCall(at, next) ==
    /\ pc[Main] = at
    /\ results' = destination
    /\ resultsRef' = "copy"
    /\ pc' = [pc EXCEPT ![Main] = next]
    /\ UNCHANGED <<qvars, ivars, timeout, arg, success, item, pvars, cvars, producers,
                   consumers, k, hvars, ops>>

\* get_results() after wait_for_completion() has returned
GetResults == ResultsCall("returned", "end")

\* get_results() between start() and wait_for_completion(), while the
\* threads run
GetResultsEarly == ResultsCall("started", "started")

\* the items of the list get_results() returned, as its holder sees them now
ResultsList == IF resultsRef = "destination" THEN destination ELSE results

\* ------------------------------------------------------------ initial states
InitQueue ==
    /\ queue = <<>>
    /\ max_size \in 1..MaxCap
    /\ closed = FALSE
    /\ timeout = [t \in Threads |-> t \in Consumers]
    /\ arg = [t \in Threads |-> None]
    /\ success = [t \in Threads |-> FALSE]
    /\ item = [t \in Threads |-> None]
    /\ fails = [t \in Producers |-> FALSE]
    /\ idx = [t \in Producers |-> 0]
    /\ items_produced = [t \in Producers |-> 0]
    /\ running = [t \in Consumers |-> TRUE]
    /\ items_consumed = [t \in Consumers |-> 0]
    /\ destination = <<>>
    /\ producers = <<>>
    /\ consumers = <<>>
    /\ k = 0
    /\ results = <<>>
    /\ resultsRef = "none"
    /\ putLog = <<>>
    /\ getLog = <<>>
    /\ closeCalls = 0
    /\ popsAtClose = -1
    /\ waited = [t \in Threads |-> FALSE]
    /\ accepted = [t \in Producers |-> <<>>]
    /\ raised = [t \in Producers |-> FALSE]
    /\ ops = 0
    /\ heap = [i \in ObjIds |-> [kind |-> "free", items |-> <<>>,
                                 closed |-> FALSE, max_size |-> 0]]
    /\ shared_queue = [s \in Systems |-> 0]
    /\ sys_destination = [s \in Systems |-> 0]
    /\ in_hand = [s \in Systems |-> NoItem]
    /\ actor = "none"

\* ... and no Producer has been given a source
InitCommon ==
    /\ InitQueue
    /\ source = [t \in Producers |-> <<>>]

\* a SharedQueue(max_size) used directly by client threads
QInit ==
    /\ InitCommon
    /\ pc = [t \in Threads |-> IF t \in Clients THEN "idle" ELSE "new"]

QNext ==
    \E t \in Clients :
        \/ \E v \in Values : ClientPut(t, v)
        \/ \E timed \in BOOLEAN : ClientGet(t, timed)
        \/ ClientClose(t)
        \/ ClientDone(t)
        \/ Put(t)
        \/ Get(t)
        \/ GetTimeout(t)

QSpec == QInit /\ [][QNext]_vars

\* what a client thread does inside a call of put or get
ClientRun(t) == Put(t) \/ Get(t) \/ GetTimeout(t)

\* Fair scheduling: a thread that can go on inside its call eventually does.
FairQSpec ==
    /\ QInit
    /\ [][QNext /\ ops' <= MaxLiveOps]_vars
    /\ \A t \in Clients : WF_vars(ClientRun(t))

\* a ProducerConsumerSystem(queue_size) right after construction
Init ==
    /\ InitCommon
    /\ pc = [t \in Threads |-> IF t = Main THEN "setup" ELSE "new"]

ProducerStep(p) == P_Iter(p) \/ Put(p) \/ P_Ret(p)

ConsumerStep(c) == C_Loop(c) \/ Get(c) \/ GetTimeout(c) \/ C_Got(c) \/ C_IsEmpty(c)

MainStep ==
    \/ \E src \in Sources : AddProducer(src)
    \/ AddConsumer
    \/ Start
    \/ StartThread
    \/ JoinProducersClose
    \/ JoinConsumersReturn
    \/ GetResults

Next ==
    \/ MainStep
    \/ \E p \in Producers : ProducerStep(p)
    \/ \E c \in Consumers : ConsumerStep(c)

Spec == Init /\ [][Next]_vars

\* the orchestrated run, with stop() called on running consumers by the
\* thread that holds what add_consumer returned
StopNext == Next \/ \E c \in Consumers : Stop(c)

StopSpec == Init /\ [][StopNext]_vars

\* the orchestrated run, with get_results() also called while it runs
SnapNext == Next \/ GetResultsEarly

SnapSpec == Init /\ [][SnapNext]_vars

\* the reverse of start()'s order: every producer before any consumer
ReverseOrder == producers \o consumers

\* one thread.start() of a caller that starts the registered threads itself,
\* the producers first, instead of calling start()
StartThreadReversed ==
    /\ pc[Main] = "starting"
    /\ pc' = [pc EXCEPT ![ReverseOrder[k + 1]] = FirstStep(ReverseOrder[k + 1]),
                        ![Main] = IF k + 1 = Len(ReverseOrder) THEN "started"
                                  ELSE "starting"]
    /\ k' = IF k + 1 = Len(ReverseOrder) THEN 0 ELSE k + 1
    /\ UNCHANGED <<qvars, ivars, timeout, arg, success, item, pvars, cvars, producers,
                   consumers, results, resultsRef, hvars, ops>>

\* the orchestrated run with the threads started in the reverse order
RevNext ==
    \/ \E src \in Sources : AddProducer(src)
    \/ AddConsumer
    \/ Start
    \/ StartThreadReversed
    \/ JoinProducersClose
    \/ JoinConsumersReturn
    \/ GetResults
    \/ \E p \in Producers : ProducerStep(p)
    \/ \E c \in Consumers : ConsumerStep(c)

RevSpec == Init /\ [][RevNext]_vars

\* add_producer(source) called after start() has returned: the method has
\* no test of the system's state, the thread is registered and not started
LateAddProducer(src) ==
    /\ pc[Main] = "started"
    /\ Len(producers) < Len(ProducerOrder)
    /\ TotalItems + Len(src) <= MaxItems
    /\ source' = [source EXCEPT ![ProducerOrder[Len(producers) + 1]] = src]
    /\ producers' = Append(producers, ProducerOrder[Len(producers) + 1])
    /\ UNCHANGED <<qvars, ivars, pc, timeout, arg, success, item, fails, idx,
                   items_produced, cvars, consumers, k, results, resultsRef, hvars, ops>>

\* add_consumer() called after start() has returned
LateAddConsumer ==
    /\ pc[Main] = "started"
    /\ Len(consumers) < Len(ConsumerOrder)
    /\ consumers' = Append(consumers, ConsumerOrder[Len(consumers) + 1])
    /\ UNCHANGED <<qvars, ivars, pc, timeout, arg, success, item, pvars, cvars,
                   producers, k, results, resultsRef, hvars, ops>>

\* a loop of join() calls reaches a thread that was never started, the
\* threads before it having terminated: Thread.join() raises RuntimeError
JoinRaises(threads) ==
    \E i \in DOMAIN threads :
        /\ pc[threads[i]] = "new"
        /\ \A j \in 1..(i - 1) : pc[threads[j]] = "done"

\* wait_for_completion() is left by the RuntimeError of a join(), in its
\* first loop (the queue is then not closed) or in its second
WaitRaises ==
    /\ \/ pc[Main] = "started" /\ JoinRaises(producers)
       \/ pc[Main] = "join_c" /\ JoinRaises(consumers)
    /\ pc' = [pc EXCEPT ![Main] = "raised"]
    /\ UNCHANGED <<qvars, ivars, timeout, arg, success, item, pvars, cvars, svars,
                   hvars, ops>>

\* the orchestrated run, calls of add_* after start() included
LateNext ==
    \/ Next
    \/ \E src \in Sources : LateAddProducer(src)
    \/ LateAddConsumer
    \/ WaitRaises

LateSpec == Init /\ [][LateNext]_vars

\* The source failures that wait_for_completion() and get_results() hand to
\* their caller: join() does not re-raise the exception that ended a thread,
\* neither method raises, and no attribute of the system records one.
ExposedErrors == {}

\* the orchestrated run, sources whose iteration raises included
FailNext == Next \/ \E src \in Sources : AddFailingProducer(src)

FailSpec == Init /\ [][FailNext]_vars

\* what start() and wait_for_completion() do once start() has been called
MainRun == StartThread \/ JoinProducersClose \/ JoinConsumersReturn

\* Fair scheduling: a thread that can take a step eventually takes one.
FairSpec ==
    /\ Spec
    /\ WF_vars(MainRun)
    /\ \A p \in Producers : WF_vars(ProducerStep(p))
    /\ \A c \in Consumers : WF_vars(ConsumerStep(c))

\* the same scheduling for the runs with failing sources
FairFailSpec ==
    /\ FailSpec
    /\ WF_vars(MainRun)
    /\ \A p \in Producers : WF_vars(ProducerStep(p))
    /\ \A c \in Consumers : WF_vars(ConsumerStep(c))

\* Fair scheduling of the run started in the reverse order
FairRevSpec ==
    /\ RevSpec
    /\ WF_vars(StartThreadReversed \/ JoinProducersClose \/ JoinConsumersReturn)
    /\ \A p \in Producers : WF_vars(ProducerStep(p))
    /\ \A c \in Consumers : WF_vars(ConsumerStep(c))

\* ------------------------------------------------------------ two systems
\* Two ProducerConsumerSystem instances side by side.  What is modelled here
\* is which objects each instance builds and reaches: every constructor
\* call evaluates `[]` and SharedQueue(...) anew, and the threads of a
\* system work on the objects its add_producer / add_consumer handed them.
\* The operations are the critical sections of put, get and close and the
\* consumer's append, each on the objects of the acting system.

\* the variables of the one-system model
onevars == <<qvars, pc, timeout, arg, success, item, pvars, cvars, svars,
             hvars, ops>>

\* the items the producers of a system take from their sources
ItemsOf(s) == IF s = "s1" THEN {"a"} ELSE {"b"}

\* the number of objects built so far
Allocated == Cardinality({i \in ObjIds : heap[i].kind # "free"})

\* (mutant of FreshId: one object per attribute for all instances, as with a
\* class attribute or a mutable default argument)
SharedId(n) == n

\* the identity of the n-th object a constructor call builds: a new one
FreshId(n) == Allocated + n

\* the objects of system s
QueueOf(s) == heap[shared_queue[s]]
DestinationOf(s) == heap[sys_destination[s]]

\* the items system s holds, wherever they are
HeldBy(s) ==
    Len(QueueOf(s).items) + Len(DestinationOf(s).items)
        + (IF in_hand[s] = NoItem THEN 0 ELSE 1)

\* ProducerConsumerSystem(queue_size)
NewSystem(s, queue_size) ==
    /\ shared_queue[s] = 0
    /\ shared_queue' = [shared_queue EXCEPT ![s] = FreshId(1)]
    /\ sys_destination' = [sys_destination EXCEPT ![s] = FreshId(2)]
    /\ heap' = [heap EXCEPT
                  ![FreshId(1)] = [kind |-> "queue", items |-> <<>>,
                                   closed |-> FALSE, max_size |-> queue_size],
                  ![FreshId(2)] = [kind |-> "list", items |-> <<>>,
                                   closed |-> FALSE, max_size |-> 0]]
    /\ actor' = s
    /\ UNCHANGED <<in_hand, onevars>>

\* a producer of system s: put(v) appends
SysPut(s, v) ==
    /\ shared_queue[s] # 0
    /\ HeldBy(s) < MaxItems
    /\ ~QueueOf(s).closed
    /\ Len(QueueOf(s).items) < QueueOf(s).max_size
    /\ heap' = [heap EXCEPT ![shared_queue[s]].items = Appended(@, v)]
    /\ actor' = s
    /\ UNCHANGED <<shared_queue, sys_destination, in_hand, onevars>>

\* a consumer of system s: get() pops
SysGet(s) ==
    /\ shared_queue[s] # 0
    /\ in_hand[s] = NoItem
    /\ QueueOf(s).items # <<>>
    /\ in_hand' = [in_hand EXCEPT ![s] = Popped(QueueOf(s).items)]
    /\ heap' = [heap EXCEPT ![shared_queue[s]].items = AfterPop(@)]
    /\ actor' = s
    /\ UNCHANGED <<shared_queue, sys_destination, onevars>>

\* a consumer of system s: self.destination.append(item)
SysAppend(s) ==
    /\ in_hand[s] # NoItem
    /\ heap' = [heap EXCEPT ![sys_destination[s]].items = Append(@, in_hand[s])]
    /\ in_hand' = [in_hand EXCEPT ![s] = NoItem]
    /\ actor' = s
    /\ UNCHANGED <<shared_queue, sys_destination, onevars>>

\* wait_for_completion() of system s: self.shared_queue.close()
SysClose(s) ==
    /\ shared_queue[s] # 0
    /\ ~QueueOf(s).closed
    /\ heap' = [heap EXCEPT ![shared_queue[s]].closed = TRUE]
    /\ actor' = s
    /\ UNCHANGED <<shared_queue, sys_destination, in_hand, onevars>>

TwoInit ==
    /\ InitCommon
    /\ pc = [t \in Threads |-> "new"]

TwoNext ==
    \E s \in Systems :
        \/ \E n \in 1..MaxCap : NewSystem(s, n)
        \/ \E v \in ItemsOf(s) : SysPut(s, v)
        \/ SysGet(s)
        \/ SysAppend(s)
        \/ SysClose(s)

TwoSpec == TwoInit /\ [][TwoNext]_vars

\* ------------------------------------------------------------ threads used directly
\* A driver thread builds a SharedQueue, Producer and Consumer threads on
\* it, starts them and closes the queue when it chooses, as the tests of
\* Producer and Consumer do.
Driver == "k1"

\* the first n threads of an order
FirstOf(order, n) == {order[i] : i \in 1..n}

\* The driver has built a queue, Producers with their sources and Consumers
\* and has called start() on each; no thread has run yet.
TInit ==
    /\ InitQueue
    /\ \E np \in 0..Len(ProducerOrder), nc \in 0..Len(ConsumerOrder) :
          /\ np + nc <= MaxThreads
          /\ source \in {f \in [Producers -> Sources] :
                            /\ Len(Flatten(f, ProducerOrder)) <= MaxItems
                            /\ \A p \in Producers \ FirstOf(ProducerOrder, np) :
                                  f[p] = <<>>}
          /\ pc = [t \in Threads |->
                     IF t = Driver THEN "idle"
                     ELSE IF t \in FirstOf(ProducerOrder, np)
                                   \cup FirstOf(ConsumerOrder, nc)
                     THEN FirstStep(t)
                     ELSE "new"]

\* sq.close(), whatever the threads are doing
DriverClose ==
    /\ pc[Driver] = "idle"
    /\ Close(Driver, "done")
    /\ UNCHANGED <<svars, ops>>

TNext ==
    \/ DriverClose
    \/ \E p \in Producers : ProducerStep(p)
    \/ \E c \in Consumers : ConsumerStep(c)

TSpec == TInit /\ [][TNext]_vars

\* Fair scheduling of the started threads; the driver is free not to act.
FairTSpec ==
    /\ TSpec
    /\ \A p \in Producers : WF_vars(ProducerStep(p))
    /\ \A c \in Consumers : WF_vars(ConsumerStep(c))

\* the same, with the driver also calling stop() on running consumers
StopTNext == TNext \/ \E c \in Consumers : Stop(c)

StopTSpec == TInit /\ [][StopTNext]_vars

FairStopTSpec ==
    /\ StopTSpec
    /\ \A p \in Producers : WF_vars(ProducerStep(p))
    /\ \A c \in Consumers : WF_vars(ConsumerStep(c))

\* ------------------------------------------------------------ claims
Range(s) == {s[i] : i \in DOMAIN s}

RECURSIVE SeqToBag(_)
SeqToBag(s) ==
    IF s = <<>> THEN EmptyBag ELSE SetToBag({Head(s)}) (+) SeqToBag(Tail(s))

\* a thread is inside a put / get call (called, not yet returned)
InPut(t) == pc[t] \in {"put", "put_wait", "put_woken", "put_released"}
InGet(t) == pc[t] \in {"get", "get_wait", "get_woken", "get_expired"}

\* thread t takes a step of put's / get's critical section
PutStep(t) == pc[t] \in {"put", "put_woken", "put_released"} /\ pc'[t] # pc[t]
GetStep(t) == pc[t] \in {"get", "get_woken", "get_expired"} /\ pc'[t] # pc[t]

\* C1: for every capacity max_size >= 1 and every interleaving of put, get
\* and close calls by any number of threads, 0 <= len(queue) <= max_size in
\* every reachable state.
C1_LengthWithinCapacity ==
    /\ max_size >= 1
    /\ 0 <= Len(queue)
    /\ Len(queue) <= max_size

\* C1 witness: the buffer is full again after a get, and a put is blocked
\* on it.
C1_Witness ==
    /\ Len(queue) = max_size
    /\ Len(getLog) >= 1
    /\ \E t \in Clients : pc[t] = "put_wait"

\* all items of all registered producers' sources, as a multiset
AllSourceItems == SeqToBag(Flatten(source, producers))

\* no registered producer's source holds the value None
NoNoneInSources == None \notin Range(Flatten(source, producers))

\* C2: for 1..5 producers with finite sources, 1..5 consumers and any
\* capacity >= 1, when wait_for_completion has returned the multiset of
\* get_results() equals the multiset union of all producers' sources.
C2_ResultsEqualSources ==
    (pc[Main] = "end" /\ Len(producers) >= 1 /\ Len(consumers) >= 1)
        => SeqToBag(results) = AllSourceItems

\* C2, restricted to sources that hold no None: the multiset equality holds.
C2_ResultsEqualSourcesNoNone ==
    (pc[Main] = "end" /\ Len(producers) >= 1 /\ Len(consumers) >= 1
        /\ NoNoneInSources)
        => SeqToBag(results) = AllSourceItems

\* C2 restricted: two producers and two consumers have moved two items.
C2_NoNoneWitness ==
    /\ pc[Main] = "end"
    /\ Len(producers) = 2 /\ Len(consumers) = 2
    /\ NoNoneInSources
    /\ Len(results) = 2
    /\ \A c \in Consumers : items_consumed[c] = 1

\* wait_for_completion has returned
Returned == pc[Main] \in {"returned", "end"}

\* C3: after start() on a system with any number of producers and at least
\* one consumer, wait_for_completion eventually returns under fair
\* scheduling; when it has returned, every producer and consumer thread has
\* terminated and the queue is closed and empty.
C3_CompletionReturns ==
    /\ [](Returned /\ Len(consumers) >= 1 =>
            /\ AllDone(producers)
            /\ AllDone(consumers)
            /\ closed
            /\ queue = <<>>)
    /\ (pc[Main] \in {"starting", "started"} /\ Len(consumers) >= 1) ~> Returned

\* C3 witness: wait_for_completion has returned in a run of two producers
\* and one consumer in which a producer had to wait for room in the buffer.
C3_Witness ==
    /\ Returned
    /\ Len(producers) = 2 /\ Len(consumers) = 1
    /\ Len(putLog) = 2 /\ max_size = 1
    /\ closed /\ queue = <<>>

\* C4: once closed is true no item is ever appended to the buffer: a step
\* taken while closed never changes the record of appended items nor grows
\* the buffer, and a put that reaches its check while closed returns False
\* in that step, without waiting and without changing the buffer, even
\* when the buffer is full.
C4_NoAppendAfterClose ==
    [][closed =>
         /\ putLog' = putLog
         /\ Len(queue') <= Len(queue)
         /\ \A t \in Threads :
              PutStep(t) => /\ pc'[t] = AfterPut(t)
                            /\ success'[t] = FALSE
                            /\ queue' = queue]_vars

\* C4 witness: the queue is closed with its buffer full; a put that was
\* blocked when close() came and a put called after it have both returned
\* False.
C4_Witness ==
    /\ closed
    /\ Len(queue) = max_size
    /\ putLog = queue
    /\ \E t, u \in Clients :
         /\ pc[t] = "put_ret" /\ ~success[t] /\ waited[t]
         /\ pc[u] = "put_ret" /\ ~success[u] /\ ~waited[u]

\* C5: the queue yields one global FIFO order across all threads: the items
\* returned by get so far, followed by the items still buffered, are the
\* items accepted by put in the order of their appends.
C5_GlobalFifo == putLog = getLog \o queue

\* C5 witness: two different items, put by two threads, have been returned
\* in the order of their appends.
C5_Witness ==
    /\ Len(getLog) = 2
    /\ getLog[1] # getLog[2]
    /\ \E t, u \in Clients : t # u /\ pc[t] = "put_ret" /\ pc[u] = "put_ret"

\* C6: with exactly one producer and exactly one consumer and any capacity
\* >= 1, the final contents of the destination list are exactly the
\* producer's source sequence, in the same order.
C6_SingleProducerConsumerOrder ==
    (Returned /\ Len(producers) = 1 /\ Len(consumers) = 1)
        => destination = source[producers[1]]

\* C6, restricted to a source that holds no None: the destination is the
\* source.
C6_OrderNoNone ==
    (Returned /\ Len(producers) = 1 /\ Len(consumers) = 1 /\ NoNoneInSources)
        => destination = source[producers[1]]

\* C6 restricted: a run of one producer and one consumer has moved two
\* different items through a queue of capacity 1.
C6_NoNoneWitness ==
    /\ Returned
    /\ Len(producers) = 1 /\ Len(consumers) = 1
    /\ max_size = 1
    /\ destination = <<"b", "a">>

\* the items get has returned since the first close()
PoppedSinceClose == SubSeq(getLog, popsAtClose + 1, Len(getLog))

\* C7: after close(), get calls keep returning the items that were buffered
\* at close time, in FIFO order, until the buffer is empty; from then on
\* every get, with or without timeout, returns None without blocking, and
\* the buffer stays empty.
C7_DrainAfterClose ==
    [][closed =>
         /\ PoppedSinceClose' \o queue' = PoppedSinceClose \o queue
         /\ \A t \in Threads :
              GetStep(t) =>
                 /\ pc'[t] = AfterGet(t)
                 /\ IF queue = <<>>
                    THEN item'[t] = None /\ queue' = <<>>
                    ELSE item'[t] = Head(queue) /\ queue' = Tail(queue)]_vars

\* C7 witness: an item was buffered at close time, a get has returned it
\* since, and a later get without timeout has returned None.
C7_Witness ==
    /\ closed
    /\ queue = <<>>
    /\ Len(PoppedSinceClose) = 1
    /\ None \notin Range(PoppedSinceClose)
    /\ \E t \in Clients : pc[t] = "get_ret" /\ item[t] = None /\ ~timeout[t]

\* C8: close() wakes every waiter: while the queue is closed no thread sits
\* in a wait of put or get; a put that goes on while closed returns False
\* and a get that goes on while closed with an empty buffer returns None;
\* under fair scheduling every thread that is inside put or get when the
\* queue is closed eventually returns.
C8_CloseWakesAll ==
    /\ [](closed => not_empty = {} /\ not_full = {})
    /\ [][\A t \in Threads :
            /\ (closed /\ PutStep(t)) =>
                  pc'[t] = AfterPut(t) /\ success'[t] = FALSE
            /\ (closed /\ GetStep(t) /\ queue = <<>>) =>
                  pc'[t] = AfterGet(t) /\ item'[t] = None]_vars
    /\ \A t \in Clients :
         /\ (closed /\ InPut(t)) ~> pc[t] = "put_ret"
         /\ (closed /\ InGet(t)) ~> pc[t] = "get_ret"

\* C8 witness: a put that was blocked on the full buffer when close() came
\* has returned False.
C8_Witness ==
    /\ closed
    /\ Len(queue) = max_size
    /\ \E t \in Clients : pc[t] = "put_ret" /\ ~success[t] /\ waited[t]

\* C9: the closed flag is monotone and close() is idempotent: closed starts
\* False, is True after every close(), is never reset by any step, and a
\* close() on a closed queue changes neither the buffer nor the flag nor any
\* other thread's position.
C9_CloseMonotoneIdempotent ==
    /\ ~closed
    /\ [][/\ closed => closed'
          /\ closeCalls' # closeCalls => closed'
          /\ ~closed /\ closed' => closeCalls' # closeCalls
          /\ (closed /\ closeCalls' # closeCalls) =>
                /\ queue' = queue
                /\ closed' = closed
                /\ \A t \in Threads : pc'[t] # pc[t] => pc[t] = "idle"]_vars

\* C9 witness: close() has been called three times on a queue that holds an
\* item.
C9_Witness ==
    /\ closeCalls = 3
    /\ closed
    /\ queue # <<>>

\* what a blocked put does while it waits and when it is let go
C10_Blocking(t) ==
    /\ (PutStep(t) /\ Len(queue) >= max_size /\ ~closed) =>
          pc'[t] = "put_wait" /\ queue' = queue
    /\ (pc[t] = "put_wait" /\ pc'[t] # "put_wait") =>
          \/ Len(queue') < Len(queue) /\ pc'[t] = "put_woken"
          \/ ~closed /\ closed' /\ pc'[t] = "put_released"
    /\ (InPut(t) /\ InPut(t)' /\ queue' # queue) =>
          \E u \in Threads : u # t /\ (PutStep(u) \/ GetStep(u))

\* C10 as stated: a put on a full, open queue blocks, neither returning nor
\* changing the buffer until a get removes an item or close() is called;
\* after a get has removed the head and woken it, the blocked put completes
\* with True and its item is the new tail.
C10_BlockedPutCompletes ==
    [][\A t \in Threads :
         /\ C10_Blocking(t)
         /\ (pc[t] = "put_woken" /\ pc'[t] # pc[t]) =>
               /\ pc'[t] = AfterPut(t)
               /\ success'[t] = TRUE
               /\ queue' = Append(queue, arg[t])]_vars

\* C10 amended: as stated, except that the put woken by a get returns False
\* when the queue has been closed before it runs again, waits again when
\* another put has refilled the buffer, and otherwise completes with True
\* and its item as the new tail.
C10_BlockedPutAmended ==
    [][\A t \in Threads :
         /\ C10_Blocking(t)
         /\ (pc[t] = "put_woken" /\ pc'[t] # pc[t]) =>
               IF closed
               THEN pc'[t] = AfterPut(t) /\ success'[t] = FALSE /\ queue' = queue
               ELSE IF Len(queue) >= max_size
               THEN pc'[t] = "put_wait" /\ queue' = queue
               ELSE /\ pc'[t] = AfterPut(t)
                    /\ success'[t] = TRUE
                    /\ queue' = Append(queue, arg[t])]_vars

\* C10 witness: capacity 2, a and b were put, a third put blocked, a get has
\* returned a, and the blocked put has completed with True, its item behind
\* b in the buffer.
C10_Witness ==
    /\ max_size = 2
    /\ getLog = <<"a">>
    /\ Len(queue) = 2 /\ queue[1] = "b"
    /\ ~closed
    /\ \E t \in Clients : pc[t] = "put_ret" /\ success[t] /\ waited[t]

\* the steps of thread t leave the queue and every other thread as they were
C11_Frame(t) ==
    /\ queue' = queue
    /\ closed' = closed
    /\ putLog' = putLog
    /\ getLog' = getLog
    /\ \A u \in Threads : u # t => pc'[u] = pc[u]

\* C11: a get(timeout) on an empty, open queue whose timeout elapses with no
\* put and no close returns None and has no side effect: waiting, the expiry
\* of the timeout and the return of None change neither the buffer nor the
\* closed flag nor any other thread, the queue is still open, and the caller
\* is no longer among the waiters, so that later calls find the queue as if
\* the get had never been called.
C11_TimedOutGetNoEffect ==
    [][\A t \in Threads :
         /\ (GetStep(t) /\ pc'[t] = "get_wait") => C11_Frame(t)
         /\ (pc[t] = "get_wait" /\ pc'[t] = "get_expired") =>
               C11_Frame(t) /\ item'[t] = item[t]
         /\ (pc[t] = "get_expired" /\ pc'[t] # pc[t] /\ queue = <<>> /\ ~closed
               /\ putLog' = putLog) =>                  \* no put in between
               /\ pc'[t] = AfterGet(t)
               /\ item'[t] = None
               /\ C11_Frame(t)
               /\ ~closed'
               /\ t \notin not_empty' /\ not_full' = not_full]_vars

\* C11 witness: on a queue nobody has put to or closed, a get with a timeout
\* has waited and returned None; the queue is open and empty.
C11_Witness ==
    /\ putLog = <<>>
    /\ closeCalls = 0 /\ ~closed
    /\ queue = <<>>
    /\ \E t \in Clients :
         pc[t] = "get_ret" /\ item[t] = None /\ timeout[t] /\ waited[t]

\* C12: close is issued at most once per queue instance, only by the
\* orchestrator's wait_for_completion, and only after every producer thread
\* has terminated: no close() happens, and the queue is never closed, while
\* a producer is still running.
C12_CloseOnceAfterProducers ==
    /\ [](closeCalls <= 1)
    /\ [](closed => AllDone(producers))
    /\ [][closeCalls' # closeCalls =>
            /\ pc[Main] = "started" /\ pc'[Main] = "join_c"
            /\ AllDone(producers)
            /\ \A t \in Producers \cup Consumers :
                  pc'[t] # pc[t] => pc[t] \in {"get_wait", "put_wait"}]_vars

\* C12 witness: the orchestrator has closed the queue once, after its two
\* producers have each enqueued an item and terminated, while a consumer is
\* still running.
C12_Witness ==
    /\ closeCalls = 1 /\ closed
    /\ pc[Main] = "join_c"
    /\ Len(producers) = 2
    /\ \A p \in Producers : items_produced[p] = 1 /\ pc[p] = "done"
    /\ \E c \in Consumers : pc[c] \notin {"new", "done"}

\* C13: in a run where the queue is closed only after the producers have
\* finished (the orchestrated run), with at least one consumer draining,
\* every producer terminates under fair scheduling, and a terminated
\* producer has items_produced = len(source), for every capacity >= 1, a
\* capacity smaller than the source included.
C13_ProducedAll ==
    /\ [](\A i \in DOMAIN producers :
            pc[producers[i]] = "done" =>
               items_produced[producers[i]] = Len(source[producers[i]]))
    /\ (pc[Main] \in {"starting", "started"} /\ Len(consumers) >= 1)
          ~> AllDone(producers)

\* C13 witness: a producer with a source of two items has terminated with
\* items_produced = 2 on a queue of capacity 1 that is still open.
C13_Witness ==
    /\ max_size = 1
    /\ ~closed
    /\ Len(consumers) >= 1
    /\ \E i \in DOMAIN producers :
         /\ pc[producers[i]] = "done"
         /\ Len(source[producers[i]]) = 2
         /\ items_produced[producers[i]] = 2

\* C14: when the queue is closed under a running producer, the producer
\* stops: once the queue is closed it makes no further put call, none of its
\* remaining source items is enqueued, it terminates under fair scheduling,
\* and when it has terminated items_produced is exactly the number of its
\* items the queue accepted.
C14_ProducerStopsOnClose ==
    /\ [](\A p \in Producers :
            /\ (pc[p] = "p_ret" /\ ~success[p]) => closed
            /\ pc[p] = "done" => items_produced[p] = Len(accepted[p]))
    /\ [][closed => \A p \in Producers :
                       /\ pc[p] # "put" => pc'[p] # "put"
                       /\ accepted'[p] = accepted[p]]_vars
    /\ closed ~> \A p \in Producers : pc[p] \in {"new", "done"}

\* C14 witness: a producer with two items has terminated with
\* items_produced = 1 after the queue was closed under it: its first item
\* was accepted, its second was never enqueued.
C14_Witness ==
    /\ closed
    /\ \E p \in Producers :
         /\ pc[p] = "done"
         /\ Len(source[p]) = 2
         /\ accepted[p] = <<source[p][1]>>
         /\ items_produced[p] = 1
         /\ putLog = accepted[p]

\* C15: after the queue is closed, every running consumer eventually
\* terminates under fair scheduling, a consumer that was waiting on the
\* empty queue when close() was called included; it terminates through the
\* break on closed-and-empty, its running flag still True (no stop()).
C15_ConsumerTerminatesAfterClose ==
    /\ [][\A c \in Consumers :
            (pc[c] # "done" /\ pc'[c] = "done") =>
               pc[c] = "c_empty" /\ running[c] /\ closed]_vars
    /\ closed ~> \A c \in Consumers : pc[c] \in {"new", "done"}

\* C15 witness: nothing was ever put; one consumer has terminated after the
\* close, the other, which was waiting on the empty queue when close() came,
\* has just been woken by it.
C15_Witness ==
    /\ closed
    /\ putLog = <<>>
    /\ \E c, d \in Consumers :
         /\ pc[c] = "done" /\ running[c] /\ items_consumed[c] = 0
         /\ pc[d] = "get_woken"

\* C16: if a producer's source fails while yielding an item, the failure is
\* not swallowed: when wait_for_completion and get_results have returned,
\* every producer whose run() was ended by its source's exception is among
\* the errors the orchestrator exposes to its caller.
C16_SourceFailureExposed ==
    pc[Main] = "end" =>
        \A i \in DOMAIN producers :
            raised[producers[i]] => producers[i] \in ExposedErrors

\* C17: calling add_producer or add_consumer after start() fails fast and
\* leaves the producer list and the consumer list unchanged: the lists
\* change only before start(), and once start() has returned no registered
\* thread is one that was never started.
C17_NoLateRegistration ==
    pc[Main] \notin {"setup", "starting"} =>
        /\ \A i \in DOMAIN producers : pc[producers[i]] # "new"
        /\ \A i \in DOMAIN consumers : pc[consumers[i]] # "new"

\* a consumer has been started while a producer has not
ConsumerBeforeProducer ==
    /\ \E i \in DOMAIN consumers : pc[consumers[i]] # "new"
    /\ \E i \in DOMAIN producers : pc[producers[i]] = "new"

\* C18: correctness does not depend on the start order: when all producers
\* are started before any consumer, for every capacity >= 1 the run still
\* terminates, and when wait_for_completion has returned the destination
\* holds exactly the multiset of all source items.
C18_ReverseStartCorrect ==
    /\ ~ConsumerBeforeProducer
    /\ (Returned /\ Len(consumers) >= 1) =>
           SeqToBag(destination) = AllSourceItems

\* C18, restricted to sources that hold no None: the run started in the
\* reverse order terminates under fair scheduling with the multiset of all
\* source items in the destination.
C18_ReverseStartNoNone ==
    /\ [](~ConsumerBeforeProducer)
    /\ []((Returned /\ Len(consumers) >= 1 /\ NoNoneInSources) =>
             SeqToBag(destination) = AllSourceItems)
    /\ (pc[Main] \in {"starting", "started"} /\ Len(consumers) >= 1) ~> Returned

\* C18 restricted: a producer filled the queue of capacity 1 and blocked
\* before any consumer was started, and the run has returned with both
\* items in the destination.
C18_NoNoneWitness ==
    /\ Returned
    /\ max_size = 1
    /\ Len(producers) = 1 /\ Len(consumers) >= 1
    /\ NoNoneInSources
    /\ Len(destination) = 2

\* C19: get_results() returns a stable snapshot: the call does not modify
\* the destination and returns the items the destination holds, and the
\* list it returned is not changed by any later append a consumer makes to
\* the destination.
C19_ResultsSnapshot ==
    [][/\ (results' # results \/ resultsRef' # resultsRef) =>
             /\ destination' = destination
             /\ ResultsList' = destination
       /\ (resultsRef # "none" /\ destination' # destination) =>
             ResultsList' = ResultsList]_vars

\* C19 witness: get_results() returned a list of one item while the threads
\* ran; a consumer has appended a second item to the destination since, and
\* the returned list still holds the one item.
C19_Witness ==
    /\ resultsRef # "none"
    /\ Len(ResultsList) = 1
    /\ Len(destination) = 2
    /\ ResultsList = SubSeq(destination, 1, 1)

\* C20: two ProducerConsumerSystem instances running concurrently are
\* independent: they are built on different objects, every operation of one
\* (construction, put, get, close, append to the destination) leaves the
\* other's queue buffer, closed flag and destination unchanged, and the
\* destination of each holds only items of its own producers.
C20_InstancesIndependent ==
    /\ [](\A s \in Systems : shared_queue[s] # 0 =>
             /\ Range(DestinationOf(s).items) \subseteq ItemsOf(s)
             /\ \A o \in Systems \ {s} :
                   /\ shared_queue[o] # shared_queue[s]
                   /\ sys_destination[o] # sys_destination[s])
    /\ [][\A o \in Systems :
            (o # actor' /\ shared_queue[o] # 0) =>
               /\ shared_queue'[o] = shared_queue[o]
               /\ sys_destination'[o] = sys_destination[o]
               /\ heap'[shared_queue[o]] = heap[shared_queue[o]]
               /\ heap'[sys_destination[o]] = heap[sys_destination[o]]]_vars

\* C20 witness: both systems have items in their destinations; the first
\* has been closed while the second is open with an item buffered.
C20_Witness ==
    /\ \A s \in Systems : shared_queue[s] # 0 /\ DestinationOf(s).items # <<>>
    /\ QueueOf("s1").closed
    /\ ~QueueOf("s2").closed
    /\ QueueOf("s2").items # <<>>

\* the items in the hands of the consumers of H, as a multiset
RECURSIVE HandBag(_)
HandBag(H) ==
    IF H = {} THEN EmptyBag
    ELSE LET c == CHOOSE x \in H : TRUE
         IN SetToBag({item[c]}) (+) HandBag(H \ {c})

\* every accepted item is in the buffer, in the destination, or in the hands
\* of a consumer whose get has returned and that has not yet appended
Conserved ==
    \E H \in SUBSET {c \in Consumers : pc[c] = "c_got"} :
        SeqToBag(putLog) = SeqToBag(queue) (+) HandBag(H) (+) SeqToBag(destination)

\* C21: conservation at every reachable state: each item the queue has
\* accepted is in exactly one place, the buffer, the hands of a consumer
\* that has dequeued but not yet appended it, or the destination; it is
\* never in two places and never in none.
C21_Conservation == Conserved

\* C21, restricted to sources that hold no None: conservation holds.
C21_ConservationNoNone == NoNoneInSources => Conserved

\* C21 restricted: of two accepted items, one is in the hands of a consumer
\* and the other in the destination; the buffer is empty.
C21_NoNoneWitness ==
    /\ NoNoneInSources
    /\ Len(putLog) = 2 /\ queue = <<>> /\ Len(destination) = 1
    /\ \E c \in Consumers : pc[c] = "c_got" /\ item[c] # None

\* C22: a consumer appends to the destination every item it removes from
\* the queue, whatever the item's value, None included: whenever no
\* consumer stands between the return of its get and its append, the items
\* removed from the queue are the items of the destination.
C22_EveryDequeuedItemAppended ==
    (\A c \in Consumers : pc[c] # "c_got") =>
        SeqToBag(getLog) = SeqToBag(destination)

\* C22, restricted to sources that hold no None: the items removed are the
\* items of the destination.
C22_AppendedNoNone ==
    (NoNoneInSources /\ \A c \in Consumers : pc[c] # "c_got") =>
        SeqToBag(getLog) = SeqToBag(destination)

\* a get waits although the buffer holds an item / a put waits although the
\* queue is open and below capacity
GetStarved(t) == pc[t] = "get_wait" /\ queue # <<>>
PutStarved(t) == pc[t] = "put_wait" /\ ~closed /\ Len(queue) < max_size

C24_ExitOnlyClosedEmpty ==
    /\ [](\A c \in Consumers :
            (pc[c] = "done" /\ running[c]) => closed /\ queue = <<>>)
    /\ [][\A c \in Consumers :
            (pc[c] # "done" /\ pc'[c] = "done" /\ running[c]) =>
               closed /\ queue = <<>> /\ queue' = <<>>]_vars

\* C24 witness: a consumer that was never stopped has consumed two items
\* and terminated, another consumer was stopped; the queue is closed and
\* empty.
C24_Witness ==
    /\ closed /\ queue = <<>>
    /\ \E c, d \in Consumers :
         /\ pc[c] = "done" /\ running[c] /\ items_consumed[c] = 2
         /\ ~running[d]

\* C25: stop() is cooperative. It only sets running to False and changes
\* neither the buffer nor closed, nor the position of any thread: a consumer
\* inside get is not interrupted. After stop() the consumer appends at most
\* one further item (an append takes it to the loop test, which it leaves
\* only by terminating), and it terminates after its get returns, even if
\* the queue stays open.
C25_StopCooperative ==
    /\ [][running' # running =>
            /\ \E c \in Consumers : running' = [running EXCEPT ![c] = FALSE]
            /\ UNCHANGED <<queue, closed, pc, item, destination, items_consumed>>]_vars
    /\ [][\A c \in Consumers : ~running[c] =>
            /\ items_consumed'[c] # items_consumed[c] => pc'[c] = "c_loop"
            /\ pc[c] \in {"c_loop", "done"} =>
                  /\ pc'[c] \in {"c_loop", "done"}
                  /\ items_consumed'[c] = items_consumed[c]
                  /\ destination' = destination \/ \E d \in Consumers \ {c} :
                                                      pc[d] = "c_got"]_vars
    /\ []<>(\A c \in Consumers : running[c] \/ pc[c] = "done")

\* C25 witness: a stopped consumer has terminated after appending an item,
\* while the queue is open and still holds an item.
C25_Witness ==
    /\ ~closed /\ queue # <<>>
    /\ \E c \in Consumers :
         ~running[c] /\ pc[c] = "done" /\ items_consumed[c] = 1

\* every registered consumer has terminated (and there is one)
AllConsumersDone ==
    /\ consumers # <<>>
    /\ \A c \in Range(consumers) : pc[c] = "done"

\* the sum of the consumers' items_consumed counters
RECURSIVE SumConsumed(_)
SumConsumed(C) ==
    IF C = {} THEN 0
    ELSE LET c == CHOOSE x \in C : TRUE
         IN  items_consumed[c] + SumConsumed(C \ {c})

\* C26: with several consumers appending concurrently, once all consumers
\* have terminated every item a consumer dequeued is in the destination
\* exactly once (the dequeued items and the destination are equal as bags)
\* and the sum of items_consumed equals len(destination).
C26_ConcurrentAppends ==
    AllConsumersDone =>
        /\ SeqToBag(getLog) = SeqToBag(destination)
        /\ SumConsumed(Consumers) = Len(destination)

\* C26, the part that holds whatever the items are: no append is lost and
\* none is counted twice, so the counters add up to len(destination) in
\* every state in which no consumer is between its append and its count.
C26_CountsAgree == SumConsumed(Consumers) = Len(destination)

\* C26, for sources that hold no None
C26_ConcurrentAppendsNoNone ==
    (\A p \in Producers : None \notin Range(source[p])) => C26_ConcurrentAppends

\* two consumers have terminated, each after appending one item
C26_NoNoneWitness ==
    /\ AllConsumersDone
    /\ \A c \in Consumers : items_consumed[c] = 1
    /\ None \notin Range(destination)

\* s is a prefix of t
IsPrefix(s, t) == Len(s) <= Len(t) /\ s = SubSeq(t, 1, Len(s))

Min(a, b) == IF a <= b THEN a ELSE b

\* p is a started producer and no other producer and no consumer was started
LoneProducer(p) ==
    /\ pc[p] # "new"
    /\ \A t \in (Producers \cup Consumers) \ {p} : pc[t] = "new"

\* p has enqueued min(len(source), capacity) items, and has terminated if
\* the source fits the capacity and is blocked in put otherwise
Settled(p) ==
    /\ Len(accepted[p]) = Min(Len(source[p]), max_size)
    /\ queue = accepted[p]
    /\ pc[p] = IF Len(source[p]) <= max_size THEN "done" ELSE "put_wait"

\* C27: in every reachable state the items accepted from one producer are a
\* prefix of its source (in order, none skipped or repeated). A producer
\* that runs with no consumer and no close enqueues exactly
\* min(len(source), capacity) items: it never holds more, it terminates only
\* if len(source) <= capacity, and under fair scheduling it reaches that
\* count, terminated if the source fits and blocked in put otherwise.
C27_PrefixAndLoneProducer ==
    /\ [](\A p \in Producers : IsPrefix(accepted[p], source[p]))
    /\ [](\A p \in Producers : (LoneProducer(p) /\ ~closed) =>
            /\ Len(accepted[p]) <= Min(Len(source[p]), max_size)
            /\ pc[p] = "done" => /\ Len(source[p]) <= max_size
                                 /\ accepted[p] = source[p])
    /\ (\E p \in Producers : LoneProducer(p)) ~>
          (closed \/ \E p \in Producers : LoneProducer(p) /\ Settled(p))

\* C27 witness: a lone producer with a source of two items and a queue of
\* capacity one has enqueued one item and is blocked in put; the queue is
\* open.
C27_Witness ==
    /\ ~closed /\ max_size = 1
    /\ \E p \in Producers :
         /\ LoneProducer(p) /\ Settled(p)
         /\ Len(source[p]) = 2 /\ pc[p] = "put_wait"

\* every producer has terminated, a failing one by the exception of its
\* source and with every item the source yielded before accepted, the
\* others with their whole source accepted
SiblingsUnharmed ==
    \A p \in Range(producers) :
        /\ pc[p] = "done"
        /\ raised[p] = fails[p]
        /\ accepted[p] = source[p]

\* a system with a producer whose source fails, and with a consumer
FailingRun ==
    /\ consumers # <<>>
    /\ \E p \in Range(producers) : fails[p]

\* C28: a source failure in one producer does not crash its siblings: when
\* wait_for_completion has returned the failing producer has halted, the
\* other producers have enqueued all their items, and every accepted item,
\* those accepted before the failure included, is in the destination.
C28_FailureIsolated ==
    (FailingRun /\ Returned) =>
        /\ SiblingsUnharmed
        /\ queue = <<>>
        /\ SeqToBag(putLog) = SeqToBag(destination)

\* C28, for sources that hold no None
C28_FailureIsolatedNoNone ==
    (\A p \in Producers : None \notin Range(source[p])) => C28_FailureIsolated

\* C28, the part about termination: with a failing source too,
\* wait_for_completion returns once start() was called
C28_StillReturns == (FailingRun /\ pc[Main] = "started") ~> Returned

\* a run has returned in which the first producer failed after one item
\* and its sibling enqueued its own; both items are in the destination
C28_NoNoneWitness ==
    /\ FailingRun /\ Returned
    /\ Len(producers) = 2
    /\ raised[producers[1]] /\ ~fails[producers[2]]
    /\ Len(destination) = 2 /\ None \notin Range(destination)
    /\ \A p \in Producers : Len(source[p]) = 1

\* no thread has run and nothing was put, got or appended
Untouched ==
    /\ queue = <<>> /\ destination = <<>> /\ ~closed
    /\ putLog = <<>> /\ getLog = <<>>
    /\ \A t \in Producers \cup Consumers : pc[t] = "new"
    /\ \A p \in Producers : items_produced[p] = 0 /\ idx[p] = 0
    /\ \A c \in Consumers : items_consumed[c] = 0

\* C29: add_producer and add_consumer only register threads: before start()
\* no thread runs, nothing is put, got or appended, and the queue and the
\* destination stay empty. start() starts every registered consumer before
\* any producer: whenever a producer has been started, and so whenever a
\* put was made, every registered consumer has been started.
C29_RegisterThenConsumersFirst ==
    /\ [](pc[Main] = "setup" => Untouched)
    /\ [][(producers' # producers \/ consumers' # consumers) =>
             /\ pc' = pc
             /\ Untouched']_vars
    /\ []((putLog # <<>> \/ \E p \in Range(producers) : pc[p] # "new") =>
             \A c \in Range(consumers) : pc[c] # "new")

\* C29 witness: start() is still starting threads (the second producer is
\* not started), both consumers are started and the first producer's put
\* was accepted.
C29_Witness ==
    /\ pc[Main] = "starting"
    /\ Len(producers) = 2 /\ Len(consumers) = 2
    /\ pc[producers[2]] = "new"
    /\ putLog # <<>>
    /\ \A c \in Consumers : pc[c] # "new"

\* p is blocked in put on a full open queue, wait_for_completion() is in
\* its joins of the producers, which precede its close(), and every one of
\* the system's consumers has terminated: no thread is left that would pop
\* or close
Stuck(p) ==
    /\ pc[p] = "put_wait"
    /\ ~closed /\ Len(queue) >= max_size
    /\ pc[Main] = "started"
    /\ consumers # <<>>
    /\ \A c \in Range(consumers) : pc[c] = "done"
    /\ \A q \in Range(producers) : pc[q] \in {"put_wait", "done"}

\* C30: calling stop() on consumers during an orchestrated run cannot make
\* the run hang: no reachable state has a producer blocked in put with
\* nothing left able to unblock it.
C30_StopNeverHangs == \A p \in Producers : ~Stuck(p)

\* C30, without stop(): while no consumer was stopped the orchestrated run
\* never leaves a producer blocked for good
C30_NoStopNeverHangs ==
    (\A c \in Consumers : running[c]) => C30_StopNeverHangs

=============================================================================
